---- MODULE Spec2Model ----
(***************************************************************************)
(* A model of price-service.py: the interactive loop of main, the message  *)
(* pipeline of PriceService (analyze_message, process_tickers,             *)
(* fetch_prices, handle_message) and HermesClient.get_latest_prices.       *)
(*                                                                         *)
(* Python floats are IEEE-754 binary64.  Their arithmetic is modelled      *)
(* bit-exactly on naturals held as sequences of 15-bit limbs, least         *)
(* significant first, because a 53-bit significand does not fit TLC's      *)
(* integers.                                                               *)
(***************************************************************************)
EXTENDS Integers, Sequences, FiniteSets

(***************************************************************************)
(* Naturals of unbounded width: a sequence of limbs in 0..Base-1, least    *)
(* significant first, without leading (high) zero limbs; zero is the empty *)
(* sequence.  Products of two limbs stay below 2^31.                       *)
(***************************************************************************)
LimbBits == 15

Base == 2^LimbBits

RECURSIVE Trim(_)
Trim(a) ==
    IF a = <<>> THEN <<>>
    ELSE IF a[Len(a)] = 0 THEN Trim(SubSeq(a, 1, Len(a) - 1))
    ELSE a

RECURSIVE NatToLimbs(_)
NatToLimbs(n) ==
    IF n = 0 THEN <<>> ELSE <<n % Base>> \o NatToLimbs(n \div Base)

LimbAt(a, i) ==
    IF i <= Len(a) THEN a[i] ELSE 0

RECURSIVE AddFrom(_, _, _, _)
AddFrom(a, b, i, carry) ==
    IF i > Len(a) /\ i > Len(b)
    THEN IF carry > 0 THEN <<carry>> ELSE <<>>
    ELSE LET s == LimbAt(a, i) + LimbAt(b, i) + carry
         IN <<s % Base>> \o AddFrom(a, b, i + 1, s \div Base)

Add(a, b) ==
    AddFrom(a, b, 1, 0)

\* a - b for a >= b
RECURSIVE SubFrom(_, _, _, _)
SubFrom(a, b, i, borrow) ==
    IF i > Len(a) THEN <<>>
    ELSE LET d == LimbAt(a, i) - LimbAt(b, i) - borrow
         IN <<d % Base>> \o SubFrom(a, b, i + 1, IF d < 0 THEN 1 ELSE 0)

Sub(a, b) ==
    Trim(SubFrom(a, b, 1, 0))

\* a >= b, both without leading zero limbs
RECURSIVE GeqFrom(_, _, _)
GeqFrom(a, b, i) ==
    IF i = 0 THEN TRUE
    ELSE IF a[i] # b[i] THEN a[i] > b[i]
    ELSE GeqFrom(a, b, i - 1)

Geq(a, b) ==
    IF Len(a) # Len(b) THEN Len(a) > Len(b) ELSE GeqFrom(a, b, Len(a))

\* a * s for a single limb s
RECURSIVE MulSmallFrom(_, _, _, _)
MulSmallFrom(a, s, i, carry) ==
    IF i > Len(a)
    THEN IF carry > 0 THEN <<carry>> ELSE <<>>
    ELSE LET p == a[i] * s + carry
         IN <<p % Base>> \o MulSmallFrom(a, s, i + 1, p \div Base)

MulSmall(a, s) ==
    Trim(MulSmallFrom(a, s, 1, 0))

ShiftLimbs(a, k) ==
    IF a = <<>> THEN <<>> ELSE [i \in 1..k |-> 0] \o a

RECURSIVE MulFrom(_, _, _)
MulFrom(a, b, i) ==
    IF i > Len(b) THEN <<>>
    ELSE Add(ShiftLimbs(MulSmall(a, b[i]), i - 1), MulFrom(a, b, i + 1))

Mul(a, b) ==
    MulFrom(a, b, 1)

\* a * 2^k
ShiftLeft(a, k) ==
    ShiftLimbs(MulSmall(a, 2^(k % LimbBits)), k \div LimbBits)

\* floor(a / 2^k)
ShiftRight(a, k) ==
    LET drop == k \div LimbBits
        r    == k % LimbBits
        n    == Len(a) - drop
    IN IF n <= 0 THEN <<>>
       ELSE Trim([j \in 1..n |->
                    (a[j + drop] \div 2^r)
                    + (LimbAt(a, j + drop + 1) % 2^r) * 2^(LimbBits - r)])

\* the number of bits of a limb
RECURSIVE SmallBitLen(_)
SmallBitLen(n) ==
    IF n = 0 THEN 0 ELSE 1 + SmallBitLen(n \div 2)

BitLen(a) ==
    IF a = <<>> THEN 0 ELSE (Len(a) - 1) * LimbBits + SmallBitLen(a[Len(a)])

\* bit i of a, bit 1 the least significant
BitAt(a, i) ==
    (LimbAt(a, ((i - 1) \div LimbBits) + 1) \div 2^((i - 1) % LimbBits)) % 2

\* a mod 2^k # 0
LowBitsNonZero(a, k) ==
    \E i \in 1..k : BitAt(a, i) = 1

\* Long division, one limb of n at a time from the most significant, one
\* bit of the limb at a time: [q, r] with n = q*d + r.
RECURSIVE DivBits(_, _, _, _, _)
DivBits(r, d, limb, j, q) ==
    IF j = 0 THEN [q |-> q, r |-> r]
    ELSE LET bit == (limb \div 2^(j - 1)) % 2
             r2  == Add(MulSmall(r, 2), IF bit = 1 THEN <<1>> ELSE <<>>)
         IN IF Geq(r2, d)
            THEN DivBits(Sub(r2, d), d, limb, j - 1, 2 * q + 1)
            ELSE DivBits(r2, d, limb, j - 1, 2 * q)

RECURSIVE DivFrom(_, _, _, _, _)
DivFrom(n, d, i, q, r) ==
    IF i = 0 THEN [q |-> Trim(q), r |-> r]
    ELSE LET step == DivBits(r, d, n[i], LimbBits, 0)
         IN DivFrom(n, d, i - 1, <<step.q>> \o q, step.r)

\* Short division by a single limb s, one limb of n at a time.
RECURSIVE DivSmallFrom(_, _, _, _, _)
DivSmallFrom(n, s, i, q, r) ==
    IF i = 0 THEN [q |-> Trim(q), r |-> NatToLimbs(r)]
    ELSE LET cur == r * Base + n[i]
         IN DivSmallFrom(n, s, i - 1, <<cur \div s>> \o q, cur % s)

DivMod(n, d) ==
    IF Len(d) = 1 THEN DivSmallFrom(n, d[1], Len(n), <<>>, 0)
    ELSE DivFrom(n, d, Len(n), <<>>, <<>>)

RECURSIVE Pow10Limbs(_)
Pow10Limbs(k) ==
    IF k = 0 THEN <<1>> ELSE MulSmall(Pow10Limbs(k - 1), 10)

(***************************************************************************)
(* binary64: a float is [sig, exp] of value sig * 2^exp, sig of exactly    *)
(* Precision bits (or zero for 0.0).  The exponent range is never          *)
(* approached by the values of this program and is left unbounded.         *)
(***************************************************************************)
Precision == 53

Zero == [sig |-> <<>>, exp |-> 0]

\* Round sig * 2^exp (plus a nonzero fraction below it when sticky) to the
\* nearest float, ties to even.
RoundToNearestEven(sig, exp, sticky) ==
    LET L == BitLen(sig)
    IN IF L = 0 THEN Zero
       ELSE IF L <= Precision
       THEN [sig |-> ShiftLeft(sig, Precision - L), exp |-> exp - (Precision - L)]
       ELSE LET d     == L - Precision
                kept  == ShiftRight(sig, d)
                guard == BitAt(sig, d)
                rest  == sticky \/ LowBitsNonZero(sig, d - 1)
                up    == guard = 1 /\ (rest \/ BitAt(kept, 1) = 1)
                r     == IF up THEN Add(kept, <<1>>) ELSE kept
            IN IF BitLen(r) > Precision
               THEN [sig |-> ShiftRight(r, 1), exp |-> exp + d + 1]
               ELSE [sig |-> r, exp |-> exp + d]

\* The float nearest to the rational n / d (d > 0).
RoundRatio(n, d) ==
    IF n = <<>> THEN Zero
    ELSE LET want == Precision + 3 + BitLen(d) - BitLen(n)
             s    == IF want > 0 THEN want ELSE 0
             qr   == DivMod(ShiftLeft(n, s), d)
         IN RoundToNearestEven(qr.q, 0 - s, qr.r # <<>>)

\* float(str) of a decimal integer string, given as the natural it denotes
FloatOfInt(m) ==
    RoundToNearestEven(NatToLimbs(m), 0, FALSE)

FloatMul(x, y) ==
    IF x.sig = <<>> \/ y.sig = <<>> THEN Zero
    ELSE RoundToNearestEven(Mul(x.sig, y.sig), x.exp + y.exp, FALSE)

\* 10 ** float(e): C pow(10.0, e), which returns the float nearest to 10^e
\* for the integral exponents of a price feed.
FloatPow10(e) ==
    IF e >= 0 THEN RoundRatio(Pow10Limbs(e), <<1>>)
    ELSE RoundRatio(<<1>>, Pow10Limbs(0 - e))

\* float(mantissa) * 10 ** float(expo)
ScaleByExpo(m, e) ==
    FloatMul(FloatOfInt(m), FloatPow10(e))

\* The float nearest to the real number m * 10^e: what the decimal literal
\* of m * 10^e (123.45 for 12345, -2) denotes.
NearestFloat(m, e) ==
    IF e >= 0 THEN RoundRatio(Mul(NatToLimbs(m), Pow10Limbs(e)), <<1>>)
    ELSE RoundRatio(NatToLimbs(m), Pow10Limbs(0 - e))

(***************************************************************************)
(* Bounds of the model.                                                    *)
(***************************************************************************)
MaxCatalog == 3

MaxTickers == 2

MaxParsed == 2

RECURSIVE SeqsUpTo(_, _)
SeqsUpTo(S, n) ==
    IF n = 0 THEN {<<>>}
    ELSE LET shorter == SeqsUpTo(S, n - 1)
         IN shorter \cup {Append(s, v) : s \in {t \in shorter : Len(t) = n - 1}, v \in S}

(***************************************************************************)
(* The feed catalog: the body of GET /v2/price_feeds.  Every entry has an  *)
(* id and attributes.description; attributes.base is optional (NoBase: the *)
(* key is absent).  Ids are unique in a catalog.                           *)
(***************************************************************************)
NoBase == "<absent>"

Bases == {"BTC", "ETH"}

FeedIdOf == <<"a", "b", "c", "d", "e">>

DescriptionOf == <<"A / USD", "B / USD", "C / USD", "D / USD", "E / USD">>

Catalogs ==
    UNION {[1..n -> Bases \cup {NoBase}] : n \in 0..MaxCatalog}

CatalogOf(bases) ==
    [i \in 1..Len(bases) |->
        [id |-> FeedIdOf[i],
         attributes |-> [base |-> bases[i], description |-> DescriptionOf[i]]]]

\* "base" in item["attributes"]
HasBase(item) ==
    item.attributes.base # NoBase

(***************************************************************************)
(* Exceptions: the class and str(e).                                       *)
(***************************************************************************)
NoExc == [cls |-> "None", msg |-> ""]

Exc(cls, msg) == [cls |-> cls, msg |-> msg]

\* requests.exceptions.RequestException and its subclasses
IsRequestException(e) ==
    e.cls \in {"Timeout", "ConnectionError", "HTTPError"}

\* subclasses of Exception; SystemExit derives from BaseException only
IsException(e) ==
    e.cls \notin {"None", "SystemExit"}

(***************************************************************************)
(* The classifier's reply.  kind "api_error": the chat-completion call     *)
(* raised.  Otherwise the reply is a text, given by what eval makes of it: *)
(*   "dict"       a dict display with the keys in keys                     *)
(*   "non_dict"   an expression whose value is not a dict (a quoted        *)
(*                sentence)                                                *)
(*   "not_python" not an expression Python can evaluate (prose, or JSON    *)
(*                with true/false)                                         *)
(*   "exit_call"  the expression exit()                                    *)
(* is_price_request is "True", "False" or "'yes'" (a non-empty string, not *)
(* a boolean).                                                             *)
(***************************************************************************)
TickerSymbols == {"BTC", "ETH", "btc"}

TickerLists == SeqsUpTo(TickerSymbols, MaxTickers)

AllKeys == {"is_price_request", "tickers", "chat_response"}

Reply(kind, keys, ipr, tickers, chat) ==
    [kind |-> kind, keys |-> keys, is_price_request |-> ipr,
     tickers |-> tickers, chat_response |-> chat]

NoReply == Reply("none", {}, "False", <<>>, "")

Replies ==
    {Reply("dict", AllKeys, ipr, t, "Hi!") :
        ipr \in {"True", "False"}, t \in TickerLists}
    \cup {Reply("dict", AllKeys, "'yes'", t, "Hi!") : t \in {<<>>, <<"BTC">>}}
    \cup {Reply("dict", AllKeys \ {k}, ipr, <<"BTC">>, "Hi!") :
            k \in AllKeys, ipr \in {"True", "False"}}
    \cup {Reply(k, {}, "False", <<>>, "") :
            k \in {"api_error", "non_dict", "not_python", "exit_call"}}

\* the reply is the structured data the classifier is asked for
WellFormed(r) ==
    /\ r.kind = "dict"
    /\ r.keys = AllKeys
    /\ r.is_price_request \in {"True", "False"}

\* Python truth of the value of is_price_request
Truthy(v) ==
    v # "False"

\* eval(response.choices[0].message.content)
Eval(r) ==
    CASE r.kind = "dict"       -> [exc |-> NoExc, value |-> r]
      [] r.kind = "non_dict"   -> [exc |-> NoExc, value |-> r]
      [] r.kind = "not_python" -> [exc |-> Exc("SyntaxError", "invalid syntax"), value |-> NoReply]
      [] r.kind = "exit_call"  -> [exc |-> Exc("SystemExit", "None"), value |-> NoReply]

\* analyze_message: the call, the eval of the reply, and the except clause,
\* which logs and re-raises an Exception
analyze_message(r) ==
    IF r.kind = "api_error"
    THEN [exc |-> Exc("APIError", "Connection error."), value |-> NoReply,
          evaluated |-> FALSE,
          log |-> <<"Error processing message with GPT">>]
    ELSE LET v == Eval(r)
         IN [exc |-> v.exc, value |-> v.value, evaluated |-> TRUE,
             log |-> IF IsException(v.exc)
                     THEN <<"Error processing message with GPT">> ELSE <<>>]

\* analysis[key]
GetItem(analysis, key) ==
    IF analysis.kind # "dict"
    THEN Exc("TypeError", "string indices must be integers")
    ELSE IF key \notin analysis.keys
    THEN Exc("KeyError", "'" \o key \o "'")
    ELSE NoExc

(***************************************************************************)
(* process_tickers                                                         *)
(***************************************************************************)
PriceFeed(item) ==
    [id |-> item.id, description |-> item.attributes.description]

\* the list comprehension over self.price_feeds, from entry i on
RECURSIVE FeedsOfTicker(_, _, _)
FeedsOfTicker(catalog, ticker, i) ==
    IF i > Len(catalog) THEN <<>>
    ELSE (IF HasBase(catalog[i]) /\ catalog[i].attributes.base = ticker
          THEN <<PriceFeed(catalog[i])>> ELSE <<>>)
         \o FeedsOfTicker(catalog, ticker, i + 1)

\* the for loop over tickers, from ticker i on, extending price_feeds
RECURSIVE ExtendFrom(_, _, _, _)
ExtendFrom(catalog, tickers, i, price_feeds) ==
    IF i > Len(tickers) THEN price_feeds
    ELSE ExtendFrom(catalog, tickers, i + 1,
                    price_feeds \o FeedsOfTicker(catalog, tickers[i], 1))

\* Mutant: a ticker that occurred earlier in the list is skipped.
RECURSIVE ExtendOnceFrom(_, _, _, _)
ExtendOnceFrom(catalog, tickers, i, price_feeds) ==
    IF i > Len(tickers) THEN price_feeds
    ELSE ExtendOnceFrom(catalog, tickers, i + 1,
            IF \E j \in 1..(i - 1) : tickers[j] = tickers[i]
            THEN price_feeds
            ELSE price_feeds \o FeedsOfTicker(catalog, tickers[i], 1))

process_tickers_deduplicating(catalog, tickers) ==
    ExtendOnceFrom(catalog, tickers, 1, <<>>)

process_tickers(catalog, tickers) ==
    IF tickers = <<>> THEN <<>>
    ELSE ExtendFrom(catalog, tickers, 1, <<>>)

(***************************************************************************)
(* HermesClient.get_latest_prices                                          *)
(***************************************************************************)
\* the price object of the update of the feed with the i-th id of FeedIdOf
PriceFields ==
    <<[price |-> 12345, conf |-> 67, expo |-> -2],
      [price |-> 3, conf |-> 7, expo |-> -1],
      [price |-> 4, conf |-> 0, expo |-> 3],
      [price |-> 5, conf |-> 1, expo |-> 0]>>

NoFields == [price |-> 0, conf |-> 0, expo |-> 0]

\* float(mantissa) * 10 ** float(expo) for the mantissas and exponents of the
\* price objects, each product computed once
Scaled ==
    [q \in UNION {{<<PriceFields[i].price, PriceFields[i].expo>>,
                   <<PriceFields[i].conf, PriceFields[i].expo>>} :
                      i \in DOMAIN PriceFields}
        |-> ScaleByExpo(q[1], q[2])]

PublishTime == 1700000000

\* an element of "parsed": an update of one of the first ids of FeedIdOf
\* (whether the id is in the catalog, and among the requested ones, depends
\* on the catalog and the tickers); hasPrice FALSE: the element lacks the key
\* "price"
ParsedElements ==
    {[id |-> FeedIdOf[i], hasPrice |-> TRUE, price |-> PriceFields[i]] :
        i \in DOMAIN PriceFields}
    \cup {[id |-> FeedIdOf[1], hasPrice |-> FALSE, price |-> NoFields]}

\* what the HTTP GET comes to: kind "ok" is a 2xx response with a JSON body,
\* hasParsed: the body is a dict with the key "parsed"
Http(kind, hasParsed, parsed) ==
    [kind |-> kind, hasParsed |-> hasParsed, parsed |-> parsed]

NoHttp == Http("none", FALSE, <<>>)

HttpOutcomes ==
    {Http(k, FALSE, <<>>) : k \in {"timeout", "connection_error", "http_error", "ok"}}
    \cup {Http("ok", TRUE, p) : p \in SeqsUpTo(ParsedElements, MaxParsed)}

NoData == [parsed |-> <<>>]

NoResult == [exc |-> NoExc, data |-> NoData, log |-> <<>>]

\* the try block: session.get, raise_for_status, response.json() and the
\* check of the body
TryGet(http) ==
    CASE http.kind = "timeout" ->
           [exc |-> Exc("Timeout", "Read timed out."), data |-> NoData]
      [] http.kind = "connection_error" ->
           [exc |-> Exc("ConnectionError", "Connection refused"), data |-> NoData]
      [] http.kind = "http_error" ->
           [exc |-> Exc("HTTPError", "500 Server Error"), data |-> NoData]
      [] http.kind = "ok" /\ ~http.hasParsed ->
           [exc |-> Exc("ValueError", "Unexpected API response format"),
            data |-> NoData]
      [] http.kind = "ok" /\ http.hasParsed ->
           [exc |-> NoExc, data |-> [parsed |-> http.parsed]]

\* what the except clause that takes e logs; the clauses are tried in the
\* order Timeout, ConnectionError, HTTPError, ValueError, Exception
LoggedFor(e) ==
    CASE e.cls = "Timeout" -> <<"Request timed out while fetching prices">>
      [] e.cls = "ConnectionError" -> <<"Connection error while fetching prices">>
      [] e.cls = "HTTPError" -> <<"HTTP error while fetching prices">>
      [] e.cls = "ValueError" -> <<"Invalid response format from API">>
      [] e.cls = "None" -> <<>>
      [] OTHER -> <<"Unexpected error while fetching prices">>

\* Mutant: the Timeout clause logs and returns an empty result.
get_latest_prices_swallowing(http) ==
    LET r == TryGet(http)
    IN IF r.exc.cls = "Timeout"
       THEN [exc |-> NoExc, data |-> NoData, log |-> LoggedFor(r.exc)]
       ELSE [exc |-> r.exc, data |-> r.data, log |-> LoggedFor(r.exc)]

\* every except clause logs and re-raises the exception it took
get_latest_prices(http) ==
    LET r == TryGet(http)
    IN [exc |-> r.exc, data |-> r.data, log |-> LoggedFor(r.exc)]

(***************************************************************************)
(* fetch_prices                                                            *)
(***************************************************************************)
\* Mutant: the check is missing.
NoFeedsUnchecked(price_feeds) ==
    FALSE

\* if not price_feeds
NoFeeds(price_feeds) ==
    price_feeds = <<>>

RECURSIVE FeedIds(_)
FeedIds(price_feeds) ==
    IF price_feeds = <<>> THEN <<>>
    ELSE <<Head(price_feeds).id>> \o FeedIds(Tail(price_feeds))

\* next(feed.description for feed in price_feeds if feed.id == id), from
\* feed i on: StopIteration when the generator is exhausted
RECURSIVE NextDescription(_, _, _)
NextDescription(price_feeds, id, i) ==
    IF i > Len(price_feeds)
    THEN [exc |-> Exc("StopIteration", ""), value |-> ""]
    ELSE IF price_feeds[i].id = id
    THEN [exc |-> NoExc, value |-> price_feeds[i].description]
    ELSE NextDescription(price_feeds, id, i + 1)

\* Mutant: next(..., "") gives a blank description when no feed has the id.
LookupDescriptionOrBlank(price_feeds, id) ==
    LET d == NextDescription(price_feeds, id, 1)
    IN [exc |-> NoExc, value |-> d.value]

\* Mutant: the generator has no filter on the id.
LookupDescriptionUnfiltered(price_feeds, id) ==
    IF price_feeds = <<>>
    THEN [exc |-> Exc("StopIteration", ""), value |-> ""]
    ELSE [exc |-> NoExc, value |-> price_feeds[1].description]

LookupDescription(price_feeds, id) ==
    NextDescription(price_feeds, id, 1)

\* datetime.fromtimestamp(t, tz=UTC).astimezone(America/New_York).strftime(..)
FormatTime(t) ==
    [instant |-> t, zone |-> "America/New_York",
     format |-> "%B %d, %Y %I:%M %p %Z"]

\* PriceData(...) of one element of parsed: the arguments are evaluated in
\* the order id, price, confidence_interval, description, time
PriceDataOf(element, price_feeds) ==
    IF ~element.hasPrice
    THEN [exc |-> Exc("KeyError", "'price'"), value |-> <<>>]
    ELSE LET d == LookupDescription(price_feeds, element.id)
         IN IF d.exc # NoExc
            THEN [exc |-> d.exc, value |-> <<>>]
            ELSE [exc |-> NoExc,
                  value |-> <<[id |-> element.id,
                               price |-> Scaled[<<element.price.price,
                                                  element.price.expo>>],
                               confidence_interval |->
                                   Scaled[<<element.price.conf,
                                            element.price.expo>>],
                               description |-> d.value,
                               time |-> FormatTime(PublishTime)]>>]

\* the list comprehension over response_data["parsed"], from element i on,
\* records the list built so far: an exception leaves no list
RECURSIVE ConvertFrom(_, _, _, _)
ConvertFrom(parsed, price_feeds, i, records) ==
    IF i > Len(parsed) THEN [exc |-> NoExc, value |-> records]
    ELSE LET r == PriceDataOf(parsed[i], price_feeds)
         IN IF r.exc # NoExc THEN [exc |-> r.exc, value |-> <<>>]
            ELSE ConvertFrom(parsed, price_feeds, i + 1, records \o r.value)

\* Mutant: each record is put at the front of the list.
RECURSIVE ConvertPrependingFrom(_, _, _, _)
ConvertPrependingFrom(parsed, price_feeds, i, records) ==
    IF i > Len(parsed) THEN [exc |-> NoExc, value |-> records]
    ELSE LET r == PriceDataOf(parsed[i], price_feeds)
         IN IF r.exc # NoExc THEN [exc |-> r.exc, value |-> <<>>]
            ELSE ConvertPrependingFrom(parsed, price_feeds, i + 1,
                                       r.value \o records)

ConvertAllPrepending(parsed, price_feeds) ==
    ConvertPrependingFrom(parsed, price_feeds, 1, <<>>)

ConvertAll(parsed, price_feeds) ==
    ConvertFrom(parsed, price_feeds, 1, <<>>)

\* fetch_prices from the return of get_latest_prices on: [exc, value, log]
fetch_prices_finish(got, price_feeds) ==
    IF got.exc # NoExc
    THEN [exc |-> got.exc, value |-> <<>>,
          log |-> IF IsRequestException(got.exc)
                  THEN <<"Error fetching prices">> ELSE <<>>]
    ELSE LET c == ConvertAll(got.data.parsed, price_feeds)
         IN [exc |-> c.exc, value |-> c.value, log |-> <<>>]

(***************************************************************************)
(* handle_message                                                          *)
(***************************************************************************)
Response(kind, text, prices) ==
    [kind |-> kind, text |-> text, prices |-> prices]

NoResponse == Response("none", "", <<>>)

\* except Exception as e: ... return f"An error occurred: {str(e)}"
ErrorResponse(e) ==
    Response("text", "An error occurred: " \o e.msg, <<>>)

\* Mutant: the branch on is_price_request is always taken.
IsPriceRequestAlways(analysis) ==
    TRUE

\* if analysis["is_price_request"]
IsPriceRequest(analysis) ==
    Truthy(analysis.is_price_request)

\* the except clause of handle_message: what it does with an exception
\* raised in its try block
Catches(e) ==
    IsException(e)

(***************************************************************************)
(* The state.                                                              *)
(***************************************************************************)
VARIABLES
    price_feeds,    \* PriceService.price_feeds: the catalog loaded by __init__
    pc,             \* where main is: "input", "classifying" (in the
                    \* chat-completion call), "fetching" (in the HTTP GET of
                    \* get_latest_prices), "print", "exited", "crashed"
    user_message,   \* the line read by input()
    reply,          \* the classifier's reply to this message
    evaluated,      \* eval was applied to the reply's text
    resolved,       \* the call of process_tickers for this message
    requests,       \* the feed_ids of each get_latest_prices call of this message
    http,           \* what the HTTP GET came to
    got,            \* what get_latest_prices returned or raised
    raised,         \* the exception raised in handle_message's try block
    escaped,        \* the exception that left handle_message
    response,       \* what handle_message returned
    log             \* the records logged at ERROR for this message

vars ==
    <<price_feeds, pc, user_message, reply, evaluated, resolved, requests,
      http, got, raised, escaped, response, log>>

NotResolved == [called |-> FALSE, tickers |-> <<>>, feeds |-> <<>>]

Inputs == {"exit", "Exit", "price of BTC?"}

\* user_message.lower()
Lower(s) ==
    IF s = "Exit" THEN "exit" ELSE s

Init ==
    /\ price_feeds \in {CatalogOf(b) : b \in Catalogs}
    /\ pc = "input"
    /\ user_message = ""
    /\ reply = NoReply
    /\ evaluated = FALSE
    /\ resolved = NotResolved
    /\ requests = <<>>
    /\ http = NoHttp
    /\ got = NoResult
    /\ raised = NoExc
    /\ escaped = NoExc
    /\ response = NoResponse
    /\ log = <<>>

\* handle_message returns or raises: e is the exception raised in its try
\* block (NoExc: none), r the value the try block returns
Leave(e, r, lg) ==
    /\ raised' = e
    /\ IF e = NoExc
       THEN /\ response' = r
            /\ escaped' = NoExc
            /\ log' = lg
            /\ pc' = "print"
       ELSE IF Catches(e)
       THEN /\ response' = ErrorResponse(e)
            /\ escaped' = NoExc
            /\ log' = lg \o <<"Error handling message">>
            /\ pc' = "print"
       ELSE /\ response' = NoResponse
            /\ escaped' = e
            /\ log' = lg
            \* main: except Exception prints and goes on; anything else ends
            \* the process
            /\ pc' = IF IsException(e) THEN "input" ELSE "crashed"

\* main: input() returns a line; "exit" in any case ends the loop
ReadInput ==
    /\ pc = "input"
    /\ \E m \in Inputs :
        /\ user_message' = m
        /\ pc' = IF Lower(m) = "exit" THEN "exited" ELSE "classifying"
    /\ UNCHANGED <<price_feeds, reply, evaluated, resolved, requests, http,
                   got, raised, escaped, response, log>>

\* main: KeyboardInterrupt in input() ends the loop
Interrupt ==
    /\ pc = "input"
    /\ pc' = "exited"
    /\ UNCHANGED <<price_feeds, user_message, reply, evaluated, resolved,
                   requests, http, got, raised, escaped, response, log>>

\* The chat-completion call ends: analyze_message, then handle_message up
\* to its return or to the HTTP GET of get_latest_prices.
ClassifierReplies ==
    /\ pc = "classifying"
    /\ \E r \in Replies :
        LET a  == analyze_message(r)
            e1 == IF a.exc # NoExc THEN a.exc
                  ELSE GetItem(a.value, "is_price_request")
            price == e1 = NoExc /\ IsPriceRequest(a.value)
            e2 == IF e1 # NoExc THEN e1
                  ELSE IF price THEN GetItem(a.value, "tickers")
                  ELSE GetItem(a.value, "chat_response")
            feeds == process_tickers(price_feeds, a.value.tickers)
        IN /\ reply' = r
           /\ evaluated' = a.evaluated
           /\ IF e2 # NoExc
              THEN /\ Leave(e2, NoResponse, a.log)
                   /\ UNCHANGED <<resolved, requests>>
              ELSE IF ~price
              THEN /\ Leave(NoExc, Response("text", a.value.chat_response, <<>>), a.log)
                   /\ UNCHANGED <<resolved, requests>>
              ELSE /\ resolved' = [called |-> TRUE, tickers |-> a.value.tickers,
                                   feeds |-> feeds]
                   /\ IF NoFeeds(feeds)
                      THEN /\ Leave(NoExc, Response("prices", "", <<>>), a.log)
                           /\ UNCHANGED requests
                      ELSE /\ requests' = Append(requests, FeedIds(feeds))
                           /\ pc' = "fetching"
                           /\ log' = a.log
                           /\ UNCHANGED <<raised, escaped, response>>
    /\ UNCHANGED <<price_feeds, user_message, http, got>>

\* The HTTP GET ends: the rest of get_latest_prices, of fetch_prices and of
\* handle_message.
HermesResponds ==
    /\ pc = "fetching"
    /\ \E h \in HttpOutcomes :
        LET g == get_latest_prices(h)
            f == fetch_prices_finish(g, resolved.feeds)
        IN /\ http' = h
           /\ got' = [exc |-> g.exc, data |-> g.data, log |-> g.log]
           /\ Leave(f.exc, Response("prices", "", f.value), log \o g.log \o f.log)
    /\ UNCHANGED <<price_feeds, user_message, reply, evaluated, resolved,
                   requests>>

\* main: the response is printed and the loop goes on to the next input();
\* what belonged to this message is gone
PrintResponse ==
    /\ pc = "print"
    /\ pc' = "input"
    /\ user_message' = ""
    /\ reply' = NoReply
    /\ evaluated' = FALSE
    /\ resolved' = NotResolved
    /\ requests' = <<>>
    /\ http' = NoHttp
    /\ got' = NoResult
    /\ raised' = NoExc
    /\ escaped' = NoExc
    /\ response' = NoResponse
    /\ log' = <<>>
    /\ UNCHANGED price_feeds

Next ==
    \/ ReadInput
    \/ Interrupt
    \/ ClassifierReplies
    \/ HermesResponds
    \/ PrintResponse

Spec == Init /\ [][Next]_vars

(***************************************************************************)
(* The claims.                                                             *)
(***************************************************************************)
\* handle_message returned a list of PriceData built from a fetched response
Fetched ==
    /\ pc = "print"
    /\ http.kind = "ok"
    /\ raised = NoExc
    /\ response.kind = "prices"

\* the (ticker, entry) index pairs that match, and the place of a pair among
\* them in ticker order, then catalog order
MatchPairs ==
    {p \in (1..Len(resolved.tickers)) \X (1..Len(price_feeds)) :
        /\ HasBase(price_feeds[p[2]])
        /\ price_feeds[p[2]].attributes.base = resolved.tickers[p[1]]}

RankOf(p, P) ==
    Cardinality({q \in P : q[1] < p[1] \/ (q[1] = p[1] /\ q[2] <= p[2])})

\* C1: process_tickers returns, in ticker-list order and within a ticker in
\* catalog order, one PriceFeed per catalog entry whose attributes.base is
\* exactly the ticker: nothing for an empty list, an unmatched ticker or an
\* entry without base, all matches of a ticker, and again for a repeated one.
C1_ProcessTickersExact ==
    resolved.called =>
        /\ Len(resolved.feeds) = Cardinality(MatchPairs)
        /\ \A p \in MatchPairs :
              resolved.feeds[RankOf(p, MatchPairs)]
                  = [id |-> price_feeds[p[2]].id,
                     description |-> price_feeds[p[2]].attributes.description]

C1_Witness ==
    /\ resolved.called
    /\ resolved.tickers = <<"BTC", "BTC">>
    /\ Len(resolved.feeds) = 4
    /\ \E i \in DOMAIN price_feeds : ~HasBase(price_feeds[i])

\* C2: when a price request resolves to no feed, fetch_prices returns the
\* empty list without an error and without sending the latest-price request;
\* get_latest_prices is only ever called with a non-empty list of feed ids.
C2_NoRequestWithoutFeeds ==
    /\ \A i \in DOMAIN requests : requests[i] # <<>>
    /\ (resolved.called /\ resolved.feeds = <<>>) =>
          /\ requests = <<>>
          /\ pc = "print"
          /\ raised = NoExc
          /\ response = Response("prices", "", <<>>)

C2_Witness ==
    /\ pc = "print"
    /\ resolved.called
    /\ resolved.tickers # <<>>
    /\ resolved.feeds = <<>>
    /\ price_feeds # <<>>

\* C3: when the reply's is_price_request is False, handle_message neither
\* resolves tickers nor fetches prices, whatever the reply's tickers are, and
\* returns the reply's chat_response unchanged.
C3_ChatReplyVerbatim ==
    (/\ reply.kind = "dict"
     /\ "is_price_request" \in reply.keys
     /\ reply.is_price_request = "False") =>
        /\ ~resolved.called
        /\ requests = <<>>
        /\ http = NoHttp
        /\ "chat_response" \in reply.keys =>
              /\ pc = "print"
              /\ raised = NoExc
              /\ response = Response("text", reply.chat_response, <<>>)

C3_Witness ==
    /\ pc = "print"
    /\ reply.kind = "dict"
    /\ reply.keys = AllKeys
    /\ reply.is_price_request = "False"
    /\ reply.tickers = <<"BTC">>
    /\ process_tickers(price_feeds, reply.tickers) # <<>>
    /\ response.text = "Hi!"

\* C4: every failure raised while a message is handled is caught in
\* handle_message and returned as an error string: none leaves
\* handle_message, and the loop of main goes on.
C4_EveryFailureCaught ==
    raised # NoExc =>
        /\ escaped = NoExc
        /\ pc = "print"
        /\ response = ErrorResponse(raised)

\* What holds of the code: the failures that are Exceptions are caught.
C4_ExceptionsCaught ==
    (raised # NoExc /\ IsException(raised)) =>
        /\ escaped = NoExc
        /\ pc = "print"
        /\ response = ErrorResponse(raised)

ResolvedIds ==
    {resolved.feeds[j].id : j \in DOMAIN resolved.feeds}

\* C5: when an element of parsed has an id that no resolved feed has, the
\* call fails as a whole and no PriceData is produced, wherever the element
\* stands; the failure is the lookup's (StopIteration) when no element lacks
\* its price object.
C5_UnknownIdFailsWhole ==
    (/\ http.kind = "ok"
     /\ http.hasParsed
     /\ \E i \in DOMAIN http.parsed : http.parsed[i].id \notin ResolvedIds) =>
        /\ raised # NoExc
        /\ response.kind = "text"
        /\ response.prices = <<>>
        /\ (\A i \in DOMAIN http.parsed : http.parsed[i].hasPrice)
              => raised = Exc("StopIteration", "")

C5_Witness ==
    /\ pc = "print"
    /\ http.kind = "ok"
    /\ Len(http.parsed) = 2
    /\ http.parsed[1].id \in ResolvedIds
    /\ http.parsed[1].hasPrice
    /\ http.parsed[2].id \notin ResolvedIds
    /\ raised = Exc("StopIteration", "")

\* C6: when the HTTP call times out, get_latest_prices logs and raises the
\* Timeout and returns no data, and fetch_prices raises it on and produces
\* no PriceData.
C6_TimeoutRaised ==
    http.kind = "timeout" =>
        /\ got.exc.cls = "Timeout"
        /\ got.data = NoData
        /\ got.log = <<"Request timed out while fetching prices">>
        /\ raised = got.exc
        /\ response.kind = "text"
        /\ response.prices = <<>>

C6_Witness ==
    /\ pc = "print"
    /\ http.kind = "timeout"
    /\ Len(requests) = 1

\* the reply is a text that is not the structured data asked for
Malformed(r) ==
    r.kind \notin {"none", "api_error"} /\ ~WellFormed(r)

\* C7: a malformed reply is never evaluated as code and is handled as not a
\* price request: no ticker resolution, no price fetch, a string returned,
\* no failure propagated.
C7_MalformedReplyRecovered ==
    Malformed(reply) =>
        /\ ~evaluated
        /\ ~resolved.called
        /\ requests = <<>>
        /\ escaped = NoExc
        /\ pc = "print"
        /\ response.kind = "text"

\* C8: the price and the confidence interval of every record are the
\* mantissas times 10^expo exactly: the values the decimal numerals of
\* mantissa x 10^expo denote.
C8_ScalingExact ==
    Fetched =>
        \A i \in DOMAIN response.prices :
            LET f == http.parsed[i].price
            IN /\ response.prices[i].price = NearestFloat(f.price, f.expo)
               /\ response.prices[i].confidence_interval
                      = NearestFloat(f.conf, f.expo)

FeedsWithId(id) ==
    {j \in DOMAIN resolved.feeds : resolved.feeds[j].id = id}

\* C9, as claimed: the id of every returned PriceData is the id of exactly
\* one entry of the resolved feed list, and the description is that entry's.
C9_ExactlyOneFeed ==
    Fetched =>
        \A i \in DOMAIN response.prices :
            /\ Cardinality(FeedsWithId(response.prices[i].id)) = 1
            /\ \A j \in FeedsWithId(response.prices[i].id) :
                  response.prices[i].description = resolved.feeds[j].description

\* C9, amended: the id of every returned PriceData is the id of at least one
\* entry of the resolved feed list, and the description is that of the first
\* such entry.
C9_FirstMatchingFeed ==
    Fetched =>
        \A i \in DOMAIN response.prices :
            LET M == FeedsWithId(response.prices[i].id)
            IN /\ M # {}
               /\ response.prices[i].description
                      = resolved.feeds[CHOOSE j \in M : \A k \in M : j <= k].description

C9_Witness ==
    /\ Fetched
    /\ resolved.tickers = <<"BTC", "BTC">>
    /\ \E i \in DOMAIN response.prices :
          Cardinality(FeedsWithId(response.prices[i].id)) = 2

\* C10: a successful fetch_prices returns one PriceData per element of
\* parsed, in the order of parsed, whatever the order of the resolved feeds.
C10_OneRecordPerParsed ==
    Fetched =>
        /\ Len(response.prices) = Len(http.parsed)
        /\ \A i \in DOMAIN http.parsed :
              response.prices[i].id = http.parsed[i].id

C10_Witness ==
    /\ Fetched
    /\ FeedIds(resolved.feeds) = <<FeedIdOf[1], FeedIdOf[2]>>
    /\ Len(response.prices) = 2
    /\ http.parsed[1].id = FeedIdOf[2]
    /\ http.parsed[2].id = FeedIdOf[1]

====
